---- MODULE Spec2Model ----
(***************************************************************************)
(* The debug-session controller of lib-logger-go/logger.go: the registry   *)
(* (debugModeMap), the global flag (systemDebug), the controller loop      *)
(* (goDebug) with its ticker, and the callers of the public API.           *)
(*                                                                         *)
(* Granularity: one step per lock acquisition (with the reads and writes   *)
(* done under it), one per unlock, one per unlocked write of systemDebug,  *)
(* one per channel rendezvous.  Time is counted in ticks; the configured   *)
(* idle duration is ConfigDebugTimer ticks.                                *)
(***************************************************************************)
EXTENDS Integers, Sequences, FiniteSets

\* ---------------------------------------------------------------- bounds
\* the idle duration, in ticks
ConfigDebugTimer == 2
\* calls the single caller of the sequential specifications may issue
MaxCalls == 3
\* calls the second caller of the concurrent specifications may issue; the first
\* may issue one more
MaxConc == 1
\* the length of the longest "debugtimer" value tried
MaxLen == 3
\* the width of int and of time.Duration, scaled down from 64 bits
IntBits == 8
\* time.Minute in units of time, scaled down from 60e9 ns with the width
Minute == 4

Callers == {"c1", "c2"}
Names == {"a", "b"}
\* the empty variadic argument of EnableDebug() / DisableDebug() / IsDebugEnabled()
NoName == "-"

VARIABLES
    configured,     \* debugModeMap.debugMode and debugModeMap.mu are non-nil
    started,        \* logger.started
    stopper,        \* logger.stopper: "nil", "open" or "closed"
    systemDebug,    \* logger.systemDebug
    debugMode,      \* logger.debugModeMap.debugMode: name -> "absent" | "off" | "on"
    muLocked,       \* logger.debugModeMap.mu is held
    callers,        \* each caller's position in the call it is making
    left,           \* calls each caller may still issue
    loopPc,         \* goDebug's position; "none" when no loop goroutine is alive
    otherDebug,     \* goDebug's local otherDebug
    tickerRunning,  \* goDebug's local expire is a running ticker
    remaining,      \* ticks until expire next fires
    expireC,        \* a tick is buffered in expire.C
    leaked,         \* a running ticker no goroutine refers to any more
    wg,             \* the counter of the logger's WaitGroup: live goDebug goroutines
    debugCh,        \* logger.debug: "open", "closed" (inside Close) or "nil"
    envs,           \* the "debugtimer" value of the envs the last Configure was given
    debugTimer,     \* the package variable ConfigDebugTimer, in units of time
    crashed,        \* the process died of a panic or a fatal runtime error
    sinceOn,        \* history: ticks counted since the loop last armed the ticker
    discarded,      \* history: the countdown the last arming threw away (0: none)
    armedBy,        \* history: the name argument of the call whose signal armed it
    lastInfo,       \* history: the last transition event goDebug passed to l.Info
    lastWrite,      \* history: name -> the last value a call wrote to it
    offBy,          \* history: the name argument of the call whose turn-off signal
                    \* the loop is handling ("closed": the closed channel's)
    committed,      \* history: the callers inside EnableDebug or DisableDebug whose
                    \* registry mutation is done
    ret,            \* history: what the last call issued was, if Start or Stop, and
                    \* the error it returned
    restart         \* history: "stopping" (Stop is waiting), "stopped" (it returned),
                    \* "fresh" (then Start returned), "quiet" (then calls were issued,
                    \* none of them EnableDebug), else "no"

vars == <<configured, started, stopper, systemDebug, debugMode, muLocked, callers,
          left, loopPc, otherDebug, tickerRunning, remaining, expireC, leaked, wg,
          debugCh, envs, debugTimer, crashed, sinceOn, discarded, armedBy, lastInfo,
          lastWrite, offBy, committed, ret, restart>>

registry == <<configured, debugMode, muLocked>>
timer == <<tickerRunning, remaining, expireC>>
cfg == <<envs, debugTimer>>
ghost == <<offBy, committed>>
loopVars == <<loopPc, otherDebug, tickerRunning, remaining, expireC, leaked, wg>>
arming == <<sinceOn, discarded, armedBy>>
history == <<sinceOn, discarded, armedBy, lastInfo, lastWrite, ret, restart>>

Idle == [pc |-> "idle", op |-> "none", name |-> NoName, val |-> FALSE]

\* ServiceDebug{debugMode: make(map[string]bool), mu: &sync.RWMutex{}}
ServiceDebug == [n \in Names |-> "absent"]

NeverWritten == [n \in Names |-> "never"]
Void == [n \in Names |-> "void"]

Flag(b) == IF b THEN "on" ELSE "off"

\* ---------------------------------------------------------------- queries
\* IsDebugEnabled(serviceName...): the entry when a name is given, else systemDebug
IsDebugEnabled(n) == IF n # NoName THEN debugMode[n] = "on" ELSE systemDebug

CheckDebugMap(n) == debugMode[n] # "absent"

\* the write lock of the logger itself is held from Stop's entry to its return, and
\* from Close's entry to its return
LHeld == \E c \in Callers : callers[c].pc \in {"stopwait", "closing"}

\* its read lock is held by IsDebugEnabled from l.RLock() to its return
RHeld == \E c \in Callers : callers[c].pc \in {"qlock", "qunlock"}

\* l.Lock() can be taken
LFree == ~LHeld /\ ~RHeld

\* no Start or Stop was the last call issued
NoRet == [op |-> "none", misuse |-> FALSE, err |-> "nil"]

\* Start and Stop never assign their named result err
Returned(op, misuse) == [op |-> op, misuse |-> misuse, err |-> "nil"]

CanCall(c) == /\ ~crashed
              /\ callers[c].pc = "idle"
              /\ left[c] > 0

Spend(c) == left' = [left EXCEPT ![c] = left[c] - 1]

\* restart after the issue of a call: a call between Stop and Start breaks the
\* "Stop then Start" sequence, a call after it ends the freshness of the registry
Issued == IF restart \in {"stopping", "stopped"} THEN "no"
          ELSE IF restart = "fresh" THEN "quiet"
          ELSE restart

\* restart after the issue of EnableDebug / DisableDebug
IssuedToggle(status) == IF status /\ restart \in {"fresh", "quiet"} THEN "no" ELSE Issued

Crash == /\ crashed' = TRUE
         /\ UNCHANGED <<configured, started, stopper, systemDebug, debugMode, muLocked,
                        callers, loopVars, debugCh, cfg, ghost, history>>

\* ---------------------------------------------------------------- configuration
\* envs holds no "debugtimer" key
NoKey == <<"nokey">>

Digits == {"0", "1", "7"}
Chars == Digits \cup {"-", "+", "x"}

\* the "debugtimer" values tried: every string over Chars of length up to MaxLen
RECURSIVE StringsUpTo(_)
StringsUpTo(k) ==
    IF k = 0 THEN {<<>>}
    ELSE LET shorter == StringsUpTo(k - 1)
         IN  shorter \cup {Append(t, ch) : t \in {u \in shorter : Len(u) = k - 1},
                                            ch \in Chars}

EnvValues == StringsUpTo(MaxLen) \cup {NoKey}

MaxInt == 2 ^ (IntBits - 1) - 1

\* the two's complement value an IntBits wide integer holds for x
Wrap(x) == LET m == x % (2 ^ IntBits)
           IN  IF m > MaxInt THEN m - 2 ^ IntBits ELSE m

DefaultDebugTimer == 10 * Minute

DigitVal(ch) == CASE ch = "0" -> 0 [] ch = "1" -> 1 [] ch = "7" -> 7

\* the number the decimal digits of t denote
RECURSIVE DigitsValue(_)
DigitsValue(t) ==
    IF t = <<>> THEN 0
    ELSE 10 * DigitsValue(SubSeq(t, 1, Len(t) - 1)) + DigitVal(t[Len(t)])

\* strconv.Atoi: an optional sign, then one or more decimal digits, within int
Atoi(str) ==
    LET signed == str # <<>> /\ str[1] \in {"-", "+"}
        digits == IF signed THEN SubSeq(str, 2, Len(str)) ELSE str
        syntax == digits # <<>> /\ \A i \in 1..Len(digits) : digits[i] \in Digits
        n      == IF syntax THEN DigitsValue(digits) ELSE 0
        neg    == signed /\ str[1] = "-"
        range  == IF neg THEN n <= MaxInt + 1 ELSE n <= MaxInt
    IN  IF syntax /\ range THEN [err |-> FALSE, minutes |-> IF neg THEN 0 - n ELSE n]
        ELSE [err |-> TRUE, minutes |-> 0]

\* ConfigureFromEnv: the value it leaves in ConfigDebugTimer
ConfigureFromEnv(e) ==
    IF e = NoKey THEN DefaultDebugTimer
    ELSE IF e # <<>>
         THEN IF Atoi(e).err \/ Atoi(e).minutes <= 0
              THEN DefaultDebugTimer
              ELSE Wrap(Atoi(e).minutes * Minute)
         ELSE DefaultDebugTimer

\* ---------------------------------------------------------------- lifecycle
\* Configure(commonName, envs) with e the "debugtimer" value of envs
ConfigureWith(c, e) ==
    /\ CanCall(c)
    /\ LFree
    /\ Spend(c)
    /\ envs' = e
    /\ debugTimer' = ConfigureFromEnv(e)
    /\ configured' = TRUE
    /\ debugMode' = ServiceDebug
    /\ muLocked' = FALSE
    /\ lastWrite' = NeverWritten
    /\ ret' = NoRet
    /\ restart' = Issued
    /\ UNCHANGED <<started, stopper, systemDebug, callers, loopVars, debugCh, crashed, ghost,
                   arming, lastInfo>>

\* Configure by a service whose envs hold no "debugtimer" key
Configure(c) == ConfigureWith(c, NoKey)

\* Start without the check of l.started
StartAlways(c) ==
    /\ CanCall(c)
    /\ LFree
    /\ Spend(c)
    /\ ret' = Returned("Start", started)
    /\ stopper' = "open"
    /\ wg' = wg + 1
    /\ loopPc' = "select"
    /\ tickerRunning' = FALSE
    /\ remaining' = ConfigDebugTimer
    /\ expireC' = FALSE
    /\ started' = TRUE
    /\ restart' = IF restart = "stopped" THEN "fresh" ELSE Issued
    /\ UNCHANGED <<registry, systemDebug, callers, otherDebug, leaked, debugCh, cfg, crashed,
                   ghost,
                   arming, lastInfo, lastWrite>>

\* Start, with LaunchDebug and goDebug up to close(started)
Start(c) ==
    /\ CanCall(c)
    /\ LFree
    /\ Spend(c)
    /\ ret' = Returned("Start", started)
    /\ IF started
       THEN /\ restart' = Issued
            /\ UNCHANGED <<started, stopper, loopVars>>
       ELSE /\ stopper' = "open"
            /\ wg' = wg + 1
            /\ loopPc' = "select"
            /\ tickerRunning' = FALSE
            /\ remaining' = ConfigDebugTimer
            /\ expireC' = FALSE
            /\ started' = TRUE
            /\ restart' = IF restart = "stopped" THEN "fresh" ELSE restart
            /\ UNCHANGED <<otherDebug, leaked>>
    /\ UNCHANGED <<registry, systemDebug, callers, debugCh, cfg, crashed, ghost, arming, lastInfo,
                   lastWrite>>

\* Stop up to l.Wait(): the registry is replaced and the stopper closed; closing the
\* nil stopper Close left behind panics
Stop(c) ==
    /\ CanCall(c)
    /\ LFree
    /\ Spend(c)
    /\ IF ~started
       THEN /\ ret' = Returned("Stop", TRUE)
            /\ restart' = Issued
            /\ UNCHANGED <<registry, started, stopper, systemDebug, callers, loopVars,
                           debugCh, cfg, crashed, ghost, arming, lastInfo, lastWrite>>
       ELSE IF stopper = "nil"
       THEN Crash
       ELSE /\ configured' = TRUE
            /\ debugMode' = ServiceDebug
            /\ muLocked' = FALSE
            /\ stopper' = "closed"
            /\ lastWrite' = NeverWritten
            /\ ret' = NoRet
            /\ restart' = "stopping"
            /\ callers' = [callers EXCEPT ![c] = [Idle EXCEPT !.pc = "stopwait", !.op = "Stop"]]
            /\ UNCHANGED <<started, systemDebug, loopVars, debugCh, cfg, crashed, ghost, arming,
                           lastInfo>>

\* l.Wait() returns once every loop goroutine has called Done
StopJoin(c) ==
    /\ ~crashed
    /\ callers[c].pc = "stopwait"
    /\ wg = 0
    /\ started' = FALSE
    /\ callers' = [callers EXCEPT ![c] = Idle]
    /\ ret' = Returned("Stop", FALSE)
    /\ restart' = IF restart = "stopping" THEN "stopped" ELSE "no"
    /\ UNCHANGED <<registry, stopper, systemDebug, left, loopVars, debugCh, cfg, crashed, ghost,
                   arming, lastInfo, lastWrite>>

\* ---------------------------------------------------------------- registry calls
\* mu.Lock() and the write under it; mu is nil before Configure
UpdateDebugMap(c, n, status) ==
    /\ CanCall(c)
    /\ Spend(c)
    /\ IF ~configured
       THEN Crash
       ELSE /\ ~muLocked
            /\ muLocked' = TRUE
            /\ debugMode' = [debugMode EXCEPT ![n] = Flag(status)]
            /\ lastWrite' = [lastWrite EXCEPT ![n] = Flag(status)]
            /\ restart' = Issued
            /\ callers' = [callers EXCEPT ![c] =
                   [pc |-> "unlock", op |-> "UpdateDebugMap", name |-> n, val |-> status]]
            /\ ret' = NoRet
            /\ UNCHANGED <<configured, started, stopper, systemDebug, loopVars, debugCh, cfg,
                           crashed, ghost, arming, lastInfo>>

\* SetService without the presence check
SetServiceAlways(c, op, n, status) ==
    /\ CanCall(c)
    /\ Spend(c)
    /\ IF ~configured
       THEN Crash
       ELSE /\ ~muLocked
            /\ muLocked' = TRUE
            /\ debugMode' = [debugMode EXCEPT ![n] = Flag(status)]
            /\ lastWrite' = IF lastWrite[n] \in {"on", "off"}
                            THEN [lastWrite EXCEPT ![n] = Flag(status)]
                            ELSE lastWrite
            /\ restart' = IssuedToggle(status)
            /\ callers' = [callers EXCEPT ![c] =
                   [pc |-> "unlock", op |-> op, name |-> n, val |-> status]]
            /\ ret' = NoRet
            /\ committed' = committed \cup {c}
            /\ UNCHANGED <<configured, started, stopper, systemDebug, loopVars, debugCh, cfg,
                           crashed, offBy, arming, lastInfo>>

\* SetService that ranges over the map instead of indexing it
SetServiceEvery(c, op, n, status) ==
    /\ CanCall(c)
    /\ Spend(c)
    /\ IF ~configured
       THEN Crash
       ELSE /\ ~muLocked
            /\ muLocked' = TRUE
            /\ debugMode' = IF debugMode[n] # "absent"
                            THEN [m \in Names |-> IF debugMode[m] # "absent"
                                                  THEN Flag(status) ELSE "absent"]
                            ELSE debugMode
            /\ lastWrite' = IF lastWrite[n] \in {"on", "off"}
                            THEN [lastWrite EXCEPT ![n] = Flag(status)]
                            ELSE lastWrite
            /\ restart' = IssuedToggle(status)
            /\ callers' = [callers EXCEPT ![c] =
                   [pc |-> "unlock", op |-> op, name |-> n, val |-> status]]
            /\ ret' = NoRet
            /\ committed' = committed \cup {c}
            /\ UNCHANGED <<configured, started, stopper, systemDebug, loopVars, debugCh, cfg,
                           crashed, offBy, arming, lastInfo>>

\* SetService that takes a name it does not find for the whole system
SetServiceElseGlobal(c, op, n, status) ==
    /\ CanCall(c)
    /\ Spend(c)
    /\ IF ~configured
       THEN Crash
       ELSE /\ ~muLocked
            /\ muLocked' = TRUE
            /\ debugMode' = IF debugMode[n] # "absent"
                            THEN [debugMode EXCEPT ![n] = Flag(status)]
                            ELSE debugMode
            /\ systemDebug' = IF debugMode[n] # "absent" THEN systemDebug ELSE status
            /\ lastWrite' = IF lastWrite[n] \in {"on", "off"}
                            THEN [lastWrite EXCEPT ![n] = Flag(status)]
                            ELSE lastWrite
            /\ restart' = IssuedToggle(status)
            /\ callers' = [callers EXCEPT ![c] =
                   [pc |-> "unlock", op |-> op, name |-> n, val |-> status]]
            /\ ret' = NoRet
            /\ committed' = committed \cup {c}
            /\ UNCHANGED <<configured, started, stopper, loopVars, debugCh, cfg, crashed, offBy,
                           arming, lastInfo>>

\* SetService that hands over its signal first: the entry is not yet written when the
\* loop can take the signal
SetServiceSignalFirst(c, op, n, status) ==
    /\ CanCall(c)
    /\ Spend(c)
    /\ IF ~configured
       THEN Crash
       ELSE /\ restart' = IssuedToggle(status)
            /\ callers' = [callers EXCEPT ![c] =
                   [pc |-> "send", op |-> op, name |-> n, val |-> status]]
            /\ ret' = NoRet
            /\ UNCHANGED <<registry, started, stopper, systemDebug, loopVars, debugCh, cfg,
                           crashed, ghost, arming, lastInfo, lastWrite>>

\* the named branch of EnableDebug / DisableDebug: lock, write only if present
SetService(c, op, n, status) ==
    /\ CanCall(c)
    /\ Spend(c)
    /\ IF ~configured
       THEN Crash
       ELSE /\ ~muLocked
            /\ muLocked' = TRUE
            /\ debugMode' = IF debugMode[n] # "absent"
                            THEN [debugMode EXCEPT ![n] = Flag(status)]
                            ELSE debugMode
            /\ lastWrite' = IF lastWrite[n] \in {"on", "off"}
                            THEN [lastWrite EXCEPT ![n] = Flag(status)]
                            ELSE lastWrite
            /\ restart' = IssuedToggle(status)
            /\ callers' = [callers EXCEPT ![c] =
                   [pc |-> "unlock", op |-> op, name |-> n, val |-> status]]
            /\ ret' = NoRet
            /\ committed' = committed \cup {c}
            /\ UNCHANGED <<configured, started, stopper, systemDebug, loopVars, debugCh, cfg,
                           crashed, offBy, arming, lastInfo>>

\* SetSystemDebugStatus up to mu.Unlock(): every entry is set to status
SetSystemDebugStatus(c, op, status) ==
    /\ CanCall(c)
    /\ Spend(c)
    /\ IF ~configured
       THEN Crash
       ELSE /\ ~muLocked
            /\ muLocked' = TRUE
            /\ debugMode' = [n \in Names |->
                   IF debugMode[n] # "absent" THEN Flag(status) ELSE "absent"]
            /\ lastWrite' = Void
            /\ restart' = IssuedToggle(status)
            /\ callers' = [callers EXCEPT ![c] =
                   [pc |-> "unlock", op |-> op, name |-> NoName, val |-> status]]
            /\ ret' = NoRet
            /\ committed' = committed \cup {c}
            /\ UNCHANGED <<configured, started, stopper, systemDebug, loopVars, debugCh, cfg,
                           crashed, offBy, arming, lastInfo>>

EnableDebug(c, n) ==
    IF n # NoName THEN SetService(c, "EnableDebug", n, TRUE)
                  ELSE SetSystemDebugStatus(c, "EnableDebug", TRUE)

DisableDebug(c, n) ==
    IF n # NoName THEN SetService(c, "DisableDebug", n, FALSE)
                  ELSE SetSystemDebugStatus(c, "DisableDebug", FALSE)

\* AfterUnlock that returns at once when the name was not found: no signal is sent
AfterUnlockSkipUnknown(r) ==
    IF r.op = "UpdateDebugMap" THEN Idle
    ELSE IF r.name # NoName
         THEN IF CheckDebugMap(r.name) THEN [r EXCEPT !.pc = "send"] ELSE Idle
    ELSE [r EXCEPT !.pc = "setsys"]

\* where a call goes after its mu.Unlock()
AfterUnlock(r) ==
    IF r.op = "UpdateDebugMap" THEN Idle
    ELSE IF r.name # NoName THEN [r EXCEPT !.pc = "send"]
    ELSE [r EXCEPT !.pc = "setsys"]

\* mu.Unlock() of whatever mutex debugModeMap.mu names now; unlocking an unlocked
\* mutex is a fatal runtime error
Unlock(c) ==
    /\ ~crashed
    /\ callers[c].pc = "unlock"
    /\ IF ~muLocked
       THEN /\ Crash
            /\ UNCHANGED left
       ELSE /\ muLocked' = FALSE
            /\ callers' = [callers EXCEPT ![c] = AfterUnlock(callers[c])]
            /\ UNCHANGED <<configured, debugMode, started, stopper, systemDebug, left,
                           loopVars, debugCh, cfg, crashed, ghost, history>>

\* l.systemDebug = status, outside every lock
SetSys(c) ==
    /\ ~crashed
    /\ callers[c].pc = "setsys"
    /\ systemDebug' = callers[c].val
    /\ callers' = [callers EXCEPT ![c] = [callers[c] EXCEPT !.pc = "send"]]
    /\ UNCHANGED <<registry, started, stopper, left, loopVars, debugCh, cfg, crashed, ghost,
              history>>

\* ---------------------------------------------------------------- queries and Close
\* a call of IsDebugEnabled(serviceName...) is made; it waits for l.RLock()
CallIsDebugEnabled(c, n) ==
    /\ CanCall(c)
    /\ Spend(c)
    /\ callers' = [callers EXCEPT ![c] =
           [pc |-> "rlock", op |-> "IsDebugEnabled", name |-> n, val |-> FALSE]]
    /\ ret' = NoRet
    /\ restart' = Issued
    /\ UNCHANGED <<registry, started, stopper, systemDebug, loopVars, debugCh, cfg, crashed, ghost,
                   arming, lastInfo, lastWrite>>

\* l.RLock(); without a name the result is l.systemDebug and the call returns
QueryRLock(c) ==
    /\ ~crashed
    /\ callers[c].pc = "rlock"
    /\ ~LHeld
    /\ callers' = [callers EXCEPT ![c] =
           IF callers[c].name = NoName THEN Idle ELSE [callers[c] EXCEPT !.pc = "qlock"]]
    /\ UNCHANGED <<registry, started, stopper, systemDebug, left, loopVars, debugCh, cfg,
                   crashed, ghost, history>>

\* mu.Lock() and the read of the entry; mu is nil before Configure
QueryLock(c) ==
    /\ ~crashed
    /\ callers[c].pc = "qlock"
    /\ IF ~configured
       THEN /\ Crash
            /\ UNCHANGED left
       ELSE /\ ~muLocked
            /\ muLocked' = TRUE
            /\ callers' = [callers EXCEPT ![c] =
                   [callers[c] EXCEPT !.pc = "qunlock",
                                      !.val = IsDebugEnabled(callers[c].name)]]
            /\ UNCHANGED <<configured, debugMode, started, stopper, systemDebug, left,
                           loopVars, debugCh, cfg, crashed, ghost, history>>

\* mu.Unlock(), then the deferred l.RUnlock() and the return
QueryUnlock(c) ==
    /\ ~crashed
    /\ callers[c].pc = "qunlock"
    /\ IF ~muLocked
       THEN /\ Crash
            /\ UNCHANGED left
       ELSE /\ muLocked' = FALSE
            /\ callers' = [callers EXCEPT ![c] = Idle]
            /\ UNCHANGED <<configured, debugMode, started, stopper, systemDebug, left,
                           loopVars, debugCh, cfg, crashed, ghost, history>>

\* Close up to close(l.debug): closing the nil channel a first Close left panics, and
\* so does every sender blocked on the channel
Close(c) ==
    /\ CanCall(c)
    /\ LFree
    /\ Spend(c)
    /\ IF debugCh = "nil" \/ \E d \in Callers : callers[d].pc = "send"
       THEN Crash
       ELSE /\ debugCh' = "closed"
            /\ callers' = [callers EXCEPT ![c] = [Idle EXCEPT !.pc = "closing", !.op = "Close"]]
            /\ ret' = NoRet
            /\ restart' = Issued
            /\ UNCHANGED <<registry, started, stopper, systemDebug, loopVars, cfg, crashed, ghost,
                           arming, lastInfo, lastWrite>>

\* l.stopper, l.debug = nil, nil and the return
CloseNil(c) ==
    /\ ~crashed
    /\ callers[c].pc = "closing"
    /\ debugCh' = "nil"
    /\ stopper' = "nil"
    /\ callers' = [callers EXCEPT ![c] = Idle]
    /\ UNCHANGED <<registry, started, systemDebug, left, loopVars, cfg, crashed, ghost, history>>

\* l.debug <- status on the closed channel panics; on the nil channel it blocks
SendClosed(c) ==
    /\ ~crashed
    /\ callers[c].pc = "send"
    /\ debugCh = "closed"
    /\ Crash
    /\ UNCHANGED left

\* ---------------------------------------------------------------- goDebug
Selecting == ~crashed /\ loopPc = "select"

\* case <-l.stopper: the deferred expire.Stop() was bound to the ticker of line 271,
\* so a ticker created since keeps running
LoopStop ==
    /\ Selecting
    /\ stopper = "closed"
    /\ loopPc' = "none"
    /\ wg' = wg - 1
    /\ leaked' = (leaked \/ tickerRunning)
    /\ tickerRunning' = FALSE
    /\ remaining' = ConfigDebugTimer
    /\ expireC' = FALSE
    /\ UNCHANGED <<registry, started, stopper, systemDebug, callers, left, otherDebug,
                   debugCh, cfg, crashed, ghost, history>>

\* case <-expire.C: expire.Stop()
LoopExpire ==
    /\ Selecting
    /\ expireC
    /\ expireC' = FALSE
    /\ tickerRunning' = FALSE
    /\ remaining' = ConfigDebugTimer
    /\ loopPc' = "exp_clear"
    /\ lastInfo' = "Debug Timer Expired"
    /\ UNCHANGED <<registry, started, stopper, systemDebug, callers, left, otherDebug,
                   leaked, wg, debugCh, cfg, crashed, ghost, arming, lastWrite, ret,
                   restart>>

\* the expiry's mu.Lock() and reset of every entry
LoopExpClear ==
    /\ ~crashed
    /\ loopPc = "exp_clear"
    /\ IF ~configured
       THEN /\ Crash
            /\ UNCHANGED left
       ELSE /\ ~muLocked
            /\ muLocked' = TRUE
            /\ debugMode' = [n \in Names |->
                   IF debugMode[n] # "absent" THEN "off" ELSE "absent"]
            /\ lastWrite' = Void
            /\ loopPc' = "exp_unlock"
            /\ UNCHANGED <<configured, started, stopper, systemDebug, callers, left,
                           otherDebug, timer, leaked, wg, debugCh, cfg, crashed, ghost,
                           arming,
                           lastInfo, ret, restart>>

LoopExpUnlock ==
    /\ ~crashed
    /\ loopPc = "exp_unlock"
    /\ IF ~muLocked
       THEN /\ Crash
            /\ UNCHANGED left
       ELSE /\ muLocked' = FALSE
            /\ loopPc' = "exp_sys"
            /\ UNCHANGED <<configured, debugMode, started, stopper, systemDebug, callers,
                           left, otherDebug, timer, leaked, wg, debugCh, cfg, crashed,
                           ghost,
                           history>>

\* l.systemDebug = false, outside every lock
LoopExpSys ==
    /\ ~crashed
    /\ loopPc = "exp_sys"
    /\ systemDebug' = FALSE
    /\ loopPc' = "select"
    /\ UNCHANGED <<registry, started, stopper, callers, left, otherDebug, timer, leaked,
                   wg, debugCh, cfg, crashed, ghost, history>>

\* LoopOn that starts a ticker only when none runs and keeps the old channel
LoopOnKeepCountdown(c) ==
    /\ Selecting
    /\ debugCh = "open"
    /\ callers[c].pc = "send"
    /\ callers[c].val
    /\ callers' = [callers EXCEPT ![c] = Idle]
    /\ discarded' = 0
    /\ tickerRunning' = TRUE
    /\ remaining' = IF tickerRunning THEN remaining ELSE ConfigDebugTimer
    /\ UNCHANGED expireC
    /\ sinceOn' = 0
    /\ armedBy' = callers[c].name
    /\ lastInfo' = "Debug Mode Enabled"
    /\ committed' = committed \ {c}
    /\ UNCHANGED <<registry, started, stopper, systemDebug, left, loopPc, otherDebug,
                   leaked, wg, debugCh, cfg, crashed, offBy, lastWrite, ret, restart>>

\* LoopOn with expire.Stop() but no new ticker
LoopOnNoTicker(c) ==
    /\ Selecting
    /\ debugCh = "open"
    /\ callers[c].pc = "send"
    /\ callers[c].val
    /\ callers' = [callers EXCEPT ![c] = Idle]
    /\ discarded' = IF tickerRunning THEN remaining ELSE 0
    /\ tickerRunning' = FALSE
    /\ remaining' = ConfigDebugTimer
    /\ expireC' = FALSE
    /\ sinceOn' = 0
    /\ armedBy' = callers[c].name
    /\ lastInfo' = "Debug Mode Enabled"
    /\ committed' = committed \ {c}
    /\ UNCHANGED <<registry, started, stopper, systemDebug, left, loopPc, otherDebug,
                   leaked, wg, debugCh, cfg, crashed, offBy, lastWrite, ret, restart>>

\* case debug := <-l.debug with debug true: the sender returns, the ticker is replaced
LoopOn(c) ==
    /\ Selecting
    /\ debugCh = "open"
    /\ callers[c].pc = "send"
    /\ callers[c].val
    /\ callers' = [callers EXCEPT ![c] = Idle]
    /\ discarded' = IF tickerRunning THEN remaining ELSE 0
    /\ tickerRunning' = TRUE
    /\ remaining' = ConfigDebugTimer
    /\ expireC' = FALSE
    /\ sinceOn' = 0
    /\ armedBy' = callers[c].name
    /\ lastInfo' = "Debug Mode Enabled"
    /\ committed' = committed \ {c}
    /\ UNCHANGED <<registry, started, stopper, systemDebug, left, loopPc, otherDebug,
                   leaked, wg, debugCh, cfg, crashed, offBy, lastWrite, ret, restart>>

\* case debug := <-l.debug with debug false: the sender returns
LoopOff(c) ==
    /\ Selecting
    /\ debugCh = "open"
    /\ callers[c].pc = "send"
    /\ ~callers[c].val
    /\ callers' = [callers EXCEPT ![c] = Idle]
    /\ loopPc' = "off_scan"
    /\ offBy' = callers[c].name
    /\ committed' = committed \ {c}
    /\ UNCHANGED <<registry, started, stopper, systemDebug, left, otherDebug, timer,
                   leaked, wg, debugCh, cfg, crashed, history>>

\* case debug := <-l.debug on the closed channel: the zero value, false
LoopClosed ==
    /\ Selecting
    /\ debugCh = "closed"
    /\ loopPc' = "off_scan"
    /\ offBy' = "closed"
    /\ UNCHANGED <<registry, started, stopper, systemDebug, callers, left, otherDebug,
                   timer, leaked, wg, debugCh, cfg, crashed, committed, history>>

\* mu.Lock() and the scan for an entry that is still true
LoopScan ==
    /\ ~crashed
    /\ loopPc = "off_scan"
    /\ IF ~configured
       THEN /\ Crash
            /\ UNCHANGED left
       ELSE /\ ~muLocked
            /\ muLocked' = TRUE
            /\ otherDebug' = (\E n \in Names : debugMode[n] = "on")
            /\ loopPc' = "off_unlock"
            /\ UNCHANGED <<configured, debugMode, started, stopper, systemDebug, callers,
                           left, timer, leaked, wg, debugCh, cfg, crashed, ghost, history>>

\* LoopScanUnlock that stops the ticker whatever the scan found
LoopScanUnlockAlwaysStops ==
    /\ ~crashed
    /\ loopPc = "off_unlock"
    /\ IF ~muLocked
       THEN /\ Crash
            /\ UNCHANGED left
       ELSE /\ muLocked' = FALSE
            /\ tickerRunning' = FALSE
            /\ remaining' = ConfigDebugTimer
            /\ expireC' \in {expireC, FALSE}
            /\ otherDebug' = FALSE
            /\ loopPc' = "select"
            /\ lastInfo' = "Debug Mode Disabled"
            /\ offBy' = "none"
            /\ UNCHANGED <<configured, debugMode, started, stopper, systemDebug, callers,
                           left, leaked, wg, debugCh, cfg, crashed, committed, arming,
                           lastWrite, ret, restart>>

\* mu.Unlock(), then expire.Stop() unless otherDebug. Whether a tick already
\* buffered in expire.C survives Ticker.Stop depends on the Go release (kept
\* before 1.23, dropped since): both outcomes are modelled.
LoopScanUnlock ==
    /\ ~crashed
    /\ loopPc = "off_unlock"
    /\ IF ~muLocked
       THEN /\ Crash
            /\ UNCHANGED left
       ELSE /\ muLocked' = FALSE
            /\ tickerRunning' = (tickerRunning /\ otherDebug)
            /\ remaining' = IF tickerRunning /\ otherDebug THEN remaining
                            ELSE ConfigDebugTimer
            /\ expireC' \in IF otherDebug THEN {expireC} ELSE {expireC, FALSE}
            /\ otherDebug' = FALSE
            /\ loopPc' = "select"
            /\ lastInfo' = IF otherDebug THEN lastInfo ELSE "Debug Mode Disabled"
            /\ offBy' = "none"
            /\ UNCHANGED <<configured, debugMode, started, stopper, systemDebug, callers,
                           left, leaked, wg, debugCh, cfg, crashed, committed, arming,
                           lastWrite, ret, restart>>

\* one tick of time on the running ticker; expire.C holds at most one tick
Tick ==
    /\ ~crashed
    /\ tickerRunning
    /\ IF remaining > 1
       THEN /\ remaining' = remaining - 1
            /\ UNCHANGED expireC
       ELSE /\ remaining' = ConfigDebugTimer
            /\ expireC' = TRUE
    /\ sinceOn' = IF sinceOn < ConfigDebugTimer THEN sinceOn + 1 ELSE sinceOn
    /\ UNCHANGED <<registry, started, stopper, systemDebug, callers, left, loopPc,
                   otherDebug, tickerRunning, leaked, wg, debugCh, cfg, crashed, ghost,
                   discarded,
                   armedBy, lastInfo, lastWrite, ret, restart>>

\* ---------------------------------------------------------------- specifications
\* the logger NewLogger returns
Base ==
    /\ configured = FALSE
    /\ started = FALSE
    /\ stopper = "nil"
    /\ systemDebug = FALSE
    /\ debugMode = ServiceDebug
    /\ muLocked = FALSE
    /\ callers = [c \in Callers |-> Idle]
    /\ loopPc = "none"
    /\ otherDebug = FALSE
    /\ tickerRunning = FALSE
    /\ remaining = ConfigDebugTimer
    /\ expireC = FALSE
    /\ leaked = FALSE
    /\ wg = 0
    /\ debugCh = "open"
    /\ envs = NoKey
    /\ debugTimer = DefaultDebugTimer
    /\ crashed = FALSE
    /\ sinceOn = 0
    /\ discarded = 0
    /\ armedBy = "none"
    /\ lastInfo = "none"
    /\ lastWrite = NeverWritten
    /\ offBy = "none"
    /\ committed = {}
    /\ ret = NoRet
    /\ restart = "no"

Init == /\ Base
        /\ left = [c \in Callers |-> MaxConc + 1]

\* the logger of a service that has run Configure, UpdateDebugMap("a", false), Start
Running ==
    /\ configured = TRUE
    /\ started = TRUE
    /\ stopper = "open"
    /\ systemDebug = FALSE
    /\ debugMode = [ServiceDebug EXCEPT !["a"] = "off"]
    /\ muLocked = FALSE
    /\ callers = [c \in Callers |-> Idle]
    /\ loopPc = "select"
    /\ otherDebug = FALSE
    /\ tickerRunning = FALSE
    /\ remaining = ConfigDebugTimer
    /\ expireC = FALSE
    /\ leaked = FALSE
    /\ wg = 1
    /\ debugCh = "open"
    /\ envs = NoKey
    /\ debugTimer = DefaultDebugTimer
    /\ crashed = FALSE
    /\ sinceOn = 0
    /\ discarded = 0
    /\ armedBy = "none"
    /\ lastInfo = "none"
    /\ lastWrite = [NeverWritten EXCEPT !["a"] = "off"]
    /\ offBy = "none"
    /\ committed = {}
    /\ ret = Returned("Start", FALSE)
    /\ restart = "no"

\* two callers of a running logger
InitRun == /\ Running
           /\ left = [c \in Callers |-> IF c = "c1" THEN MaxConc + 1 ELSE MaxConc]

\* one caller of a running logger
InitSeq == /\ Running
           /\ left = [c \in Callers |-> IF c = "c1" THEN MaxCalls ELSE 0]

Next ==
    \/ \E c \in Callers : Configure(c)
    \/ \E c \in Callers : Start(c)
    \/ \E c \in Callers : Stop(c)
    \/ \E c \in Callers : StopJoin(c)
    \/ \E c \in Callers, n \in Names, status \in BOOLEAN : UpdateDebugMap(c, n, status)
    \/ \E c \in Callers, n \in Names \cup {NoName} : EnableDebug(c, n)
    \/ \E c \in Callers, n \in Names \cup {NoName} : DisableDebug(c, n)
    \/ \E c \in Callers : Unlock(c)
    \/ \E c \in Callers : SetSys(c)
    \/ LoopStop
    \/ LoopExpire
    \/ LoopExpClear
    \/ LoopExpUnlock
    \/ LoopExpSys
    \/ \E c \in Callers : LoopOn(c)
    \/ \E c \in Callers : LoopOff(c)
    \/ LoopScan
    \/ LoopScanUnlock
    \/ Tick

\* the operations above and IsDebugEnabled and Close
NextAll ==
    \/ Next
    \/ \E c \in Callers, n \in Names \cup {NoName} : CallIsDebugEnabled(c, n)
    \/ \E c \in Callers : QueryRLock(c)
    \/ \E c \in Callers : QueryLock(c)
    \/ \E c \in Callers : QueryUnlock(c)
    \/ \E c \in Callers : Close(c)
    \/ \E c \in Callers : CloseNil(c)
    \/ \E c \in Callers : SendClosed(c)
    \/ LoopClosed

\* every goroutine that can take a step is scheduled, and time passes; callers are
\* free never to call again
Fairness ==
    /\ WF_vars(Tick)
    /\ WF_vars(LoopStop)
    /\ WF_vars(LoopExpire)
    /\ WF_vars(LoopExpClear)
    /\ WF_vars(LoopExpUnlock)
    /\ WF_vars(LoopExpSys)
    /\ WF_vars(LoopScan)
    /\ WF_vars(LoopScanUnlock)
    /\ \A c \in Callers : /\ WF_vars(LoopOn(c))
                          /\ WF_vars(LoopOff(c))
                          /\ WF_vars(Unlock(c))
                          /\ WF_vars(SetSys(c))
                          /\ WF_vars(StopJoin(c))

Spec == Init /\ [][Next]_vars
SpecRun == InitRun /\ [][Next]_vars
SpecSeq == InitSeq /\ [][Next]_vars
FairSpec == Spec /\ Fairness
FairRun == SpecRun /\ Fairness
FairSeq == SpecSeq /\ Fairness

FairnessAll ==
    /\ Fairness
    /\ WF_vars(LoopClosed)
    /\ \A c \in Callers : /\ WF_vars(QueryRLock(c))
                          /\ WF_vars(QueryLock(c))
                          /\ WF_vars(QueryUnlock(c))
                          /\ WF_vars(CloseNil(c))
                          /\ WF_vars(SendClosed(c))

SpecAll == Init /\ [][NextAll]_vars
FairAll == SpecAll /\ FairnessAll

\* the logger NewLogger returns, to be configured over and over
InitEnv ==
    /\ Base
    /\ left = [c \in Callers |-> MaxConc + 1]

\* Configure with every "debugtimer" value
NextEnv == \E c \in Callers, e \in EnvValues : ConfigureWith(c, e)

SpecEnv == InitEnv /\ [][NextEnv]_vars

\* ---------------------------------------------------------------- properties
Budgets == 0..(IF MaxCalls > 2 * MaxConc + 2 THEN MaxCalls ELSE 2 * MaxConc + 2)
CallsLeft == left["c1"] + left["c2"]
OthersIdle(c) == \A d \in Callers \ {c} : callers[d].pc = "idle"
AllIdle == \A c \in Callers : callers[c].pc = "idle"
LoopRunning == started /\ loopPc # "none" /\ stopper = "open" /\ ~crashed
AnyOn == systemDebug \/ \E n \in Names : IsDebugEnabled(n)
Disarmed == ~tickerRunning /\ ~expireC
Quiesced == ~AnyOn /\ Disarmed

LoopHoldsMu == loopPc \in {"off_unlock", "exp_unlock"}

\* caller c is in EnableDebug(X) for a registered X, its write committed, nobody else
\* is calling and the loop is not inside a critical section of its own
EnabledRegistered(c) ==
    /\ LoopRunning
    /\ ~LoopHoldsMu
    /\ callers[c].op = "EnableDebug"
    /\ callers[c].name \in Names
    /\ callers[c].pc = "send"
    /\ CheckDebugMap(callers[c].name)
    /\ OthersIdle(c)

\* C1: auto-expiry. With the loop running, once EnableDebug(X) is called for a
\* registered X and no further call is issued, the state reaches X disabled, the
\* global flag false and the timer disarmed, without any Disable call.
C1_AutoExpiry ==
    \A c \in Callers : \A k \in Budgets :
        (EnabledRegistered(c) /\ CallsLeft = k) ~> (Quiesced \/ CallsLeft # k)

\* the expiry of an EnableDebug("a") has run to its end
C1_Witness ==
    /\ LoopRunning
    /\ AllIdle
    /\ loopPc = "select"
    /\ armedBy = "a"
    /\ lastInfo = "Debug Timer Expired"
    /\ lastWrite["a"] = "void"
    /\ Quiesced

\* C2: debug is never left on. From every state with the loop running and the global
\* flag or an entry true, if no further call is issued, eventually the global flag
\* and every entry are false.
C2_NeverLeftOn ==
    \A k \in Budgets :
        (LoopRunning /\ AnyOn /\ AllIdle /\ CallsLeft = k)
            ~> (~AnyOn \/ CallsLeft # k \/ crashed)

\* C3: last write wins. IsDebugEnabled(name) is the last value written to a registered
\* name by UpdateDebugMap, EnableDebug(name) or DisableDebug(name), and false for a
\* name never registered, as long as no expiry, Stop or global toggle intervened.
C3_LastWriteWins ==
    \A n \in Names :
        /\ lastWrite[n] = "never" => ~IsDebugEnabled(n)
        /\ lastWrite[n] \in {"on", "off"} => (IsDebugEnabled(n) <=> lastWrite[n] = "on")

\* "b" was registered, enabled and is now disabled again by a call that has returned
C3_Witness ==
    /\ AllIdle
    /\ loopPc = "off_scan"
    /\ armedBy = "b"
    /\ lastWrite["b"] = "off"
    /\ ~IsDebugEnabled("b")
    /\ CheckDebugMap("b")

\* the step in which the loop receives the signal of caller c: the call returns
Returns(c, op, n) ==
    /\ callers[c].pc = "send"
    /\ callers[c].op = op
    /\ callers[c].name = n
    /\ callers'[c].pc = "idle"

\* C4: when EnableDebug() returns, IsDebugEnabled(name) is true for every registered
\* name and IsDebugEnabled() is true; when DisableDebug() returns, both are false.
C4_EnableAllDisableAll ==
    [][\A c \in Callers :
        /\ Returns(c, "EnableDebug", NoName) =>
              /\ systemDebug'
              /\ \A n \in Names : debugMode'[n] # "absent" => debugMode'[n] = "on"
        /\ Returns(c, "DisableDebug", NoName) =>
              /\ ~systemDebug'
              /\ \A n \in Names : debugMode'[n] # "on"]_vars

Expiring == loopPc \in {"exp_clear", "exp_unlock", "exp_sys"}

\* the step in which the loop processes a turn-on signal
TurnOn == \E c \in Callers :
    /\ callers[c].pc = "send"
    /\ callers[c].val
    /\ callers'[c].pc = "idle"

\* C5: reset on activity. Every turn-on signal the loop processes arms the timer with
\* the full duration and throws the old countdown and its pending tick away, so an
\* expiry happens only a full duration after the last turn-on was processed.
C5_ResetOnActivity ==
    /\ [](Expiring => sinceOn >= ConfigDebugTimer)
    /\ [][TurnOn => (tickerRunning' /\ remaining' = ConfigDebugTimer /\ ~expireC')]_vars

\* an expiry after EnableDebug("b") re-armed a countdown that was under way
C5_Witness ==
    /\ loopPc = "exp_clear"
    /\ discarded \in 1..(ConfigDebugTimer - 1)
    /\ armedBy = "b"
    /\ IsDebugEnabled("a")
    /\ IsDebugEnabled("b")
    /\ sinceOn >= ConfigDebugTimer

\* C6: no reset on partial disable. While an entry is still true, the loop's handling
\* of a turn-off signal leaves the countdown as it is; an entry that is true turns
\* false only by a call or by the expiry a full duration after the last turn-on.
C6_PartialDisable ==
    /\ [][(loopPc = "off_scan" /\ loopPc' = "off_unlock"
             /\ \E n \in Names : debugMode[n] = "on") => otherDebug']_vars
    /\ [][((loopPc' = "off_scan" /\ loopPc = "select")
             \/ (loopPc = "off_scan" /\ loopPc' = "off_unlock")
             \/ (loopPc = "off_unlock" /\ loopPc' = "select" /\ otherDebug))
            => UNCHANGED <<timer, sinceOn, lastInfo>>]_vars
    /\ [][\A n \in Names : (debugMode[n] = "on" /\ debugMode'[n] # "on") =>
              \/ left' # left
              \/ loopPc = "exp_clear" /\ sinceOn >= ConfigDebugTimer]_vars

\* "a" armed the timer and was disabled again while "b" is enabled: the signal is
\* processed and the countdown, part of it gone, still runs
C6_Witness ==
    /\ AllIdle
    /\ loopPc = "select"
    /\ armedBy = "a"
    /\ lastWrite["a"] = "off"
    /\ IsDebugEnabled("b")
    /\ tickerRunning
    /\ remaining < ConfigDebugTimer
    /\ lastInfo = "Debug Mode Enabled"

\* C7: EnableDebug and DisableDebug never block: every call returns, whether the
\* controller was never started, is running, is busy or was stopped.
C7_NeverBlocks ==
    \A c \in Callers :
        (callers[c].op \in {"EnableDebug", "DisableDebug"})
            ~> (callers[c].pc = "idle" \/ crashed)

StopReturned == ~started /\ ~LHeld

\* C8: Stop joins the controller. Once Stop has returned the loop goroutine has
\* exited and its ticker is stopped, so that no expiry can follow.
C8_StopJoins ==
    StopReturned => (loopPc = "none" /\ ~tickerRunning /\ ~expireC /\ ~leaked)

\* the part of C8 about the goroutine alone
JoinedAfterStop == StopReturned => (loopPc = "none" /\ ~tickerRunning /\ ~expireC)

\* C9: Stop clears all debug state. After Stop returns on a running controller the
\* registry is empty and the global flag false.
C9_StopClears ==
    restart = "stopped" => (~systemDebug /\ \A n \in Names : ~CheckDebugMap(n))

\* C10: restart yields a fresh controller. After Stop then Start the registry is
\* empty, and the timer is disarmed until an EnableDebug issued after that Start.
C10_FreshRestart ==
    /\ restart = "fresh" => \A n \in Names : ~CheckDebugMap(n)
    /\ restart \in {"fresh", "quiet"} => Disarmed

\* C11: lifecycle misuse is reported. Start() on a started logger and Stop() on a
\* logger that is not started return a non-nil error.
C11_MisuseReported == ret.misuse => ret.err # "nil"

\* the step of a Start() that finds the logger started, or of a Stop() that finds it
\* not started
LifecycleMisuse == left' # left /\ ret'.misuse

\* C12: Start and Stop are no-ops on misuse and at most one controller loop exists.
\* Start() on a started logger and Stop() on one not started change neither started,
\* the stopper, the registry, the global flag, the timer nor the loop; there is never
\* more than one loop goroutine, and whenever no Start or Stop is under way there is
\* one if started and none otherwise.
C12_LifecycleNoOps ==
    /\ [](wg <= 1)
    /\ [](~LHeld => wg = IF started THEN 1 ELSE 0)
    /\ [](wg = IF loopPc = "none" THEN 0 ELSE 1)
    /\ [][LifecycleMisuse =>
            UNCHANGED <<started, stopper, registry, systemDebug, loopVars, debugCh, cfg>>]_vars

\* Start() was called on the started logger while its timer was armed
C12_Witness ==
    /\ ret = Returned("Start", TRUE)
    /\ started
    /\ wg = 1
    /\ loopPc = "select"
    /\ tickerRunning
    /\ ~crashed

\* C13: global override. In every state where the global flag is true (taken between
\* calls), IsDebugEnabled(name) reports enabled for every name, registered with
\* enabled = false, registered after the global enable, or not registered at all.
C13_GlobalOverride ==
    (systemDebug /\ AllIdle /\ ~crashed) => \A n \in Names : IsDebugEnabled(n)

\* caller c is in EnableDebug(name) or DisableDebug(name)
Toggling(c) == callers[c].op \in {"EnableDebug", "DisableDebug"} /\ callers[c].name \in Names

\* the step in which caller c enters EnableDebug(name) or DisableDebug(name) for a
\* name the registry does not hold
TogglesUnregistered(c) ==
    /\ callers[c].pc = "idle"
    /\ callers'[c].pc = "unlock"
    /\ callers'[c].op \in {"EnableDebug", "DisableDebug"}
    /\ callers'[c].name \in Names
    /\ ~CheckDebugMap(callers'[c].name)

\* a later step of such a call, up to the receipt of its signal
ContinuesUnregistered(c) ==
    /\ Toggling(c)
    /\ ~CheckDebugMap(callers[c].name)
    /\ callers'[c] # callers[c]

\* C14: EnableDebug(name) and DisableDebug(name) for a name not in the registry create
\* no entry, leave every entry unchanged and leave the global flag unchanged, from
\* the call's first step to its return and through the loop's handling of a turn-off.
C14_UnregisteredFrame ==
    /\ [][\A c \in Callers : (TogglesUnregistered(c) \/ ContinuesUnregistered(c))
              => UNCHANGED <<debugMode, systemDebug>>]_vars
    /\ [][(loopPc \in {"off_scan", "off_unlock"} /\ loopPc' # loopPc)
              => UNCHANGED <<debugMode, systemDebug>>]_vars

\* EnableDebug() then DisableDebug("b") with "b" not registered: the global flag is
\* still true when the second call hands its signal over
C14_Witness ==
    /\ ~crashed
    /\ callers["c1"] = [pc |-> "send", op |-> "DisableDebug", name |-> "b", val |-> FALSE]
    /\ ~CheckDebugMap("b")
    /\ systemDebug
    /\ IsDebugEnabled("a")
    /\ loopPc = "select"
    /\ armedBy = NoName

\* the step in which caller c registers a name: UpdateDebugMap(name, false)
Registers(c) ==
    /\ callers[c].pc = "idle"
    /\ callers'[c].pc = "unlock"
    /\ callers'[c].op = "UpdateDebugMap"
    /\ ~callers'[c].val

\* C15: registration is idempotent. Registering a name that is present leaves its
\* entry as it is, enabled if it was enabled; registering an absent name creates the
\* entry with enabled = false.
C15_RegisterIdempotent ==
    [][\A c \in Callers : Registers(c) =>
          debugMode'[callers'[c].name] =
              IF CheckDebugMap(callers'[c].name) THEN debugMode[callers'[c].name]
                                                 ELSE "off"]_vars

\* the step in which caller c applies the registry mutation of EnableDebug(name) or
\* DisableDebug(name)
AppliesToggle(c) ==
    /\ callers[c].pc = "idle"
    /\ callers'[c].pc = "unlock"
    /\ callers'[c].op \in {"EnableDebug", "DisableDebug"}
    /\ callers'[c].name \in Names

\* C16: concurrent per-name toggles do not corrupt the registry. Whatever the
\* interleaving of the callers, once all calls have returned each name's flag is the
\* value of the last call whose mutation was applied to it (no expiry, Stop or global
\* toggle since), and a call on one name never changes another name's flag.
C16_ConcurrentToggles ==
    /\ [](AllIdle => \A n \in Names :
              lastWrite[n] \in {"on", "off"} => debugMode[n] = lastWrite[n])
    /\ [][\A c \in Callers : AppliesToggle(c) =>
              \A m \in Names \ {callers'[c].name} : debugMode'[m] = debugMode[m]]_vars

\* two callers at once in EnableDebug("a") and DisableDebug("b"), both names
\* registered, both mutations applied and both signals still to be received
C16_Witness ==
    /\ LoopRunning
    /\ callers["c1"] = [pc |-> "send", op |-> "EnableDebug", name |-> "a", val |-> TRUE]
    /\ callers["c2"] = [pc |-> "send", op |-> "DisableDebug", name |-> "b", val |-> FALSE]
    /\ lastWrite = [a |-> "on", b |-> "off"]
    /\ debugMode = [a |-> "on", b |-> "off"]

\* C17: no crash state is reachable. No sequence or interleaving of Configure, Start,
\* Stop, Close, UpdateDebugMap, EnableDebug, DisableDebug and IsDebugEnabled on the
\* logger NewLogger returns ends in a panic or a fatal runtime error.
C17_NoCrash == ~crashed

\* caller c is in a call of IsDebugEnabled
Querying(c) == callers[c].op = "IsDebugEnabled"

\* C18: IsDebugEnabled is a pure, non-blocking query. In every reachable state, also
\* while Start or Stop is under way, a call of IsDebugEnabled eventually returns, and
\* no step of it changes the registry, the global flag or the timer.
C18_PureQuery ==
    /\ \A c \in Callers : Querying(c) ~> (callers[c].pc = "idle")
    /\ [][\A c \in Callers : ((Querying(c) \/ callers'[c].op = "IsDebugEnabled")
                               /\ callers'[c] # callers[c])
              => UNCHANGED <<configured, debugMode, systemDebug, timer>>]_vars

\* str is a decimal integer: an optional sign and one or more decimal digits
IsDecimalInteger(str) ==
    LET body == IF str # <<>> /\ str[1] \in {"-", "+"} THEN SubSeq(str, 2, Len(str)) ELSE str
    IN  body # <<>> /\ \A i \in 1..Len(body) : body[i] \in Digits

\* the integer it denotes
DecimalInteger(str) ==
    IF str[1] = "-" THEN 0 - DigitsValue(SubSeq(str, 2, Len(str)))
    ELSE IF str[1] = "+" THEN DigitsValue(SubSeq(str, 2, Len(str)))
    ELSE DigitsValue(str)

\* the "debugtimer" value of the last Configure is a decimal integer n >= 1
ValidMinutes == envs # NoKey /\ IsDecimalInteger(envs) /\ DecimalInteger(envs) >= 1

\* C19: idle-duration resolution. After Configure the idle duration is n minutes
\* exactly when the "debugtimer" value is a decimal integer n >= 1, and the default
\* 10 minutes when the key is missing, empty, non-numeric, zero or negative, whatever
\* was configured before.
C19_IdleDuration ==
    configured =>
        debugTimer = IF ValidMinutes THEN DecimalInteger(envs) * Minute
                     ELSE DefaultDebugTimer

\* the loop waits in its select and no call is under way: no signal is pending
AtRest == LoopRunning /\ AllIdle /\ loopPc = "select"

\* C20: timer/flag invariant. In every state where the controller is running and no
\* activity signal is pending or in flight, the timer is armed if and only if the
\* global flag is true or at least one registry entry is true.
C20_TimerFlagInvariant == AtRest => (tickerRunning <=> AnyOn)

\* the step in which the loop ends its handling of a turn-off signal
EndsTurnOff == loopPc = "off_unlock" /\ loopPc' = "select" /\ ~crashed'

AnyEntryOn == \E n \in Names : IsDebugEnabled(n)

\* C21: the turn-off re-evaluation honours the global flag. When the loop has
\* processed the signal of DisableDebug(name) it stops the timer only if no entry is
\* true and the global flag is false; with the global flag true the countdown runs on
\* as it was.
C21_TurnOffHonoursGlobal ==
    [][(EndsTurnOff /\ offBy \in Names) =>
          /\ (tickerRunning /\ ~tickerRunning') => (~AnyEntryOn /\ ~systemDebug)
          /\ systemDebug => UNCHANGED timer]_vars

\* C22: DisableAll unconditionally disarms. Whenever the loop has processed the signal
\* of a DisableDebug() with no name the timer is stopped, whatever the registry holds
\* at that moment.
C22_DisableAllDisarms ==
    [][(EndsTurnOff /\ offBy = NoName) => ~tickerRunning']_vars

\* caller c is in EnableDebug() or DisableDebug() with every write of the call done:
\* it waits for the loop to take its signal
AllToggleDone(c) == callers[c].pc = "send" /\ callers[c].name = NoName

\* C23: EnableDebug() and DisableDebug() are atomic. When concurrent EnableDebug() and
\* DisableDebug() calls have made all their writes, and nothing else has written (the
\* loop has handled no signal and no expiry yet), the global flag and every registered
\* entry hold the same boolean.
C23_AllToggleAtomic ==
    ((\A c \in Callers : AllToggleDone(c)) /\ lastInfo = "none") =>
        \A n \in Names : CheckDebugMap(n) => (IsDebugEnabled(n) <=> systemDebug)

\* C24: expiry is atomic and complete. The expiry clears every entry and the global
\* flag in one step as callers see it: in no state has the expiry cleared the entries
\* and released their lock while the global flag is still true. It emits
\* "Debug Timer Expired" and leaves the ticker stopped.
C24_ExpiryAtomic ==
    loopPc = "exp_sys" =>
        /\ ~systemDebug
        /\ lastInfo = "Debug Timer Expired"
        /\ ~tickerRunning

\* the writes of l.systemDebug that can be the next step: SetSystemDebugStatus's
\* assignment in each caller, and the expiry's in the loop
FlagWrites ==
    Cardinality({c \in Callers : callers[c].pc = "setsys"})
        + (IF loopPc = "exp_sys" THEN 1 ELSE 0)

\* the reads of l.systemDebug that can be the next step: IsDebugEnabled() about to
\* take l.RLock() while nobody holds l.Lock()
FlagReads ==
    Cardinality({c \in Callers :
        callers[c].pc = "rlock" /\ callers[c].name = NoName /\ ~LHeld})

\* C25: single-lock discipline. Every access of the registry and of the global flag
\* is made under one common lock, so that no two conflicting accesses are enabled at
\* the same time: never two writes of the global flag, never a write and a read.
C25_SingleLock ==
    ~crashed => /\ FlagWrites <= 1
                /\ FlagWrites = 1 => FlagReads = 0

\* the step in which the loop takes the false signal of caller c
TakesTurnOff(c) ==
    /\ callers[c].pc = "send"
    /\ ~callers[c].val
    /\ callers'[c].pc = "idle"
    /\ loopPc' = "off_scan"

\* C26: mutation before signal. Whenever the loop takes the turn-off signal of a
\* DisableDebug call, that call has made its registry mutation and released the lock,
\* and the loop scans the registry only after that, whatever the other callers do.
C26_MutationBeforeSignal ==
    [][/\ \A c \in Callers : TakesTurnOff(c) =>
              /\ c \in committed
              /\ callers[c].op = "DisableDebug"
       /\ (loopPc # "off_unlock" /\ loopPc' = "off_unlock") =>
              /\ loopPc = "off_scan"
              /\ \A c \in Callers : callers[c].pc = "send" => c \in committed]_vars

\* the loop has scanned the registry on the signal of DisableDebug("a"), which had
\* cleared the entry EnableDebug("a") had set
C26_Witness ==
    /\ loopPc = "off_unlock"
    /\ offBy = "a"
    /\ armedBy = "a"
    /\ tickerRunning
    /\ ~otherDebug
    /\ debugMode["a"] = "off"
    /\ ~crashed

\* caller c is inside EnableDebug or DisableDebug
InToggle(c) == callers[c].op \in {"EnableDebug", "DisableDebug"}

\* the step in which the loop takes the signal of caller c as its polarity demands:
\* true re-arms the ticker, false starts the turn-off re-evaluation
HandsSignal(c) ==
    /\ callers[c].pc = "send"
    /\ loopPc = "select"
    /\ callers[c].val = (callers[c].op = "EnableDebug")
    /\ IF callers[c].val
       THEN /\ tickerRunning'
            /\ armedBy' = callers[c].name
            /\ lastInfo' = "Debug Mode Enabled"
       ELSE /\ loopPc' = "off_scan"
            /\ offBy' = callers[c].name

\* C27: every toggle signals activity. A call of EnableDebug or DisableDebug, with a
\* registered name, an unregistered name or none, offers its signal once, after its
\* registry step, and returns only in the step in which the loop takes that signal:
\* true for Enable, false for Disable. With the loop running every signal offered is
\* taken.
C27_EveryToggleSignals ==
    /\ [][\A c \in Callers :
            /\ (InToggle(c) /\ callers[c].pc # "idle" /\ callers'[c].pc = "idle")
                  => HandsSignal(c)
            /\ (callers[c].pc = "send" /\ callers'[c] # callers[c])
                  => callers'[c] = Idle
            /\ (callers[c].pc # "send" /\ callers'[c].pc = "send")
                  => callers[c].pc \in {"unlock", "setsys"}
            /\ (InToggle(c) /\ callers[c].pc \in {"unlock", "setsys"}
                  /\ callers'[c] # callers[c])
                  => (InToggle(c))' /\ callers'[c].pc \in {"setsys", "send"}]_vars
    /\ \A c \in Callers :
          (callers[c].pc = "send" /\ LoopRunning)
              ~> (callers[c].pc = "idle" \/ ~LoopRunning)

\* the loop has taken the false signal of DisableDebug("b") after the true signal of
\* EnableDebug("b"), "b" never registered
C27_Witness ==
    /\ loopPc = "off_scan"
    /\ offBy = "b"
    /\ armedBy = "b"
    /\ ~CheckDebugMap("b")
    /\ lastWrite["b"] = "never"
    /\ tickerRunning
    /\ AllIdle
    /\ ~crashed

\* C28: an enable is never cancelled by an older countdown. When EnableDebug(X) for a
\* registered X returns, X is enabled: an expiry of a countdown armed before the call,
\* taken by the loop between the call's registry write and the receipt of its signal,
\* does not clear X.
C28_EnableOutlivesOldCountdown ==
    [][\A c \in Callers : \A n \in Names :
          (Returns(c, "EnableDebug", n) /\ CheckDebugMap(n)) => IsDebugEnabled(n)']_vars

TypeOK ==
    /\ configured \in BOOLEAN
    /\ started \in BOOLEAN
    /\ stopper \in {"nil", "open", "closed"}
    /\ systemDebug \in BOOLEAN
    /\ debugMode \in [Names -> {"absent", "off", "on"}]
    /\ loopPc \in {"none", "select", "exp_clear", "exp_unlock", "exp_sys",
                   "off_scan", "off_unlock"}
    /\ remaining \in 1..ConfigDebugTimer
    /\ sinceOn \in 0..ConfigDebugTimer
    /\ discarded \in 0..ConfigDebugTimer
    /\ armedBy \in Names \cup {NoName, "none"}
    /\ lastInfo \in {"none", "Debug Mode Enabled", "Debug Mode Disabled",
                      "Debug Timer Expired"}
    /\ lastWrite \in [Names -> {"never", "on", "off", "void"}]
    /\ restart \in {"no", "stopping", "stopped", "fresh", "quiet"}
    /\ left \in [Callers -> 0..(MaxCalls + MaxConc + 1)]
    /\ wg \in 0..1
    /\ debugCh \in {"open", "closed", "nil"}
    /\ envs \in EnvValues
    /\ offBy \in Names \cup {NoName, "none", "closed"}
    /\ committed \subseteq Callers
    /\ debugTimer \in (0 - MaxInt - 1)..MaxInt
    /\ ret \in [op : {"none", "Start", "Stop"}, misuse : BOOLEAN, err : {"nil", "error"}]
====
